---------------------------- MODULE Spec2Model ----------------------------
(***************************************************************************)
(* Model of the calendar API (calendar_api/main.py,                        *)
(* calendar_api/calendar_backend.py): the check-availability and book      *)
(* handlers, the free-slot computation and the permissive timestamp        *)
(* parser.                                                                 *)
(*                                                                         *)
(* Strings are sequences of one-character strings.  A datetime is a record *)
(* of its wall-clock fields.  An instant on the time line is the number of *)
(* minutes of LOCAL_TZ wall-clock time since RefDate 00:00; this is the    *)
(* order in which Python compares aware datetimes that share one tzinfo.   *)
(***************************************************************************)
EXTENDS Integers, Sequences, FiniteSets, TLC

(***************************************************************************)
(* Bounds of the model.                                                    *)
(***************************************************************************)
\* number of events the provider's calendar holds when a check starts
MaxBusy == 2
\* number of requests in flight
NumReqs == 2
\* iterations of the slot-emitting loops that are followed before the
\* handler is reported as not returning
MaxSlots == 17

(***************************************************************************)
(* Program constants.                                                      *)
(***************************************************************************)
DefaultDurationMinutes == 30
DefaultWorkStartHour == 9
DefaultWorkEndHour == 17
\* dt_str[:19]
WallClockLen == 19
\* utcoffset of LOCAL_TZ (America/Los_Angeles) on the modelled dates
\* (November 2025, standard time), in minutes
LocalUtcOffset == 0 - (8 * 60)

Reqs == 1..NumReqs

Max(a, b) == IF a >= b THEN a ELSE b

(***************************************************************************)
(* Characters, numbers and dates.                                          *)
(***************************************************************************)
Digits == <<"0", "1", "2", "3", "4", "5", "6", "7", "8", "9">>

DigitValue == [c \in {Digits[i] : i \in 1..10} |-> (CHOOSE i \in 1..10 : Digits[i] = c) - 1]

IsDigit(c) == c \in DOMAIN DigitValue

DigitVal(c) == DigitValue[c]

\* s[i..j] holds digits only
AllDigits(s, i, j) == \A k \in i..j : IsDigit(s[k])

RECURSIVE Num(_, _, _)
\* the number s[i..j] writes in decimal
Num(s, i, j) ==
    IF j < i THEN 0 ELSE 10 * Num(s, i, j - 1) + DigitVal(s[j])

Pad2(n) == <<Digits[((n \div 10) % 10) + 1], Digits[(n % 10) + 1]>>

Pad4(n) == Pad2(n \div 100) \o Pad2(n % 100)

IsLeap(y) == (y % 4 = 0) /\ ((y % 100 # 0) \/ (y % 400 = 0))

DaysInMonth(y, m) ==
    IF m = 2 THEN (IF IsLeap(y) THEN 29 ELSE 28)
    ELSE IF m \in {4, 6, 9, 11} THEN 30 ELSE 31

DaysBeforeMonth(y, m) ==
    <<0, 31, 59, 90, 120, 151, 181, 212, 243, 273, 304, 334>>[m]
        + (IF m > 2 /\ IsLeap(y) THEN 1 ELSE 0)

\* date.toordinal()
Ordinal(y, m, d) ==
    LET p == y - 1
    IN  365 * p + (p \div 4) - (p \div 100) + (p \div 400)
            + DaysBeforeMonth(y, m) + d

DateTime(y, mo, d, h, mi, s) ==
    [year |-> y, month |-> mo, day |-> d, hour |-> h, minute |-> mi, second |-> s]

NoDateTime == DateTime(0, 0, 0, 0, 0, 0)

\* the date all instants are counted from
RefDate == DateTime(2025, 11, 15, 0, 0, 0)

RefOrdinal == Ordinal(RefDate.year, RefDate.month, RefDate.day)

\* wall-clock minutes of dt since RefDate 00:00
MinuteOf(dt) ==
    (Ordinal(dt.year, dt.month, dt.day) - RefOrdinal) * 1440
        + dt.hour * 60 + dt.minute

PrevDay(dt) ==
    IF dt.day > 1 THEN [dt EXCEPT !.day = dt.day - 1]
    ELSE IF dt.month > 1
         THEN [dt EXCEPT !.month = dt.month - 1,
                         !.day = DaysInMonth(dt.year, dt.month - 1)]
         ELSE [dt EXCEPT !.year = dt.year - 1, !.month = 12, !.day = 31]

NextDay(dt) ==
    IF dt.day < DaysInMonth(dt.year, dt.month) THEN [dt EXCEPT !.day = dt.day + 1]
    ELSE IF dt.month < 12
         THEN [dt EXCEPT !.month = dt.month + 1, !.day = 1]
         ELSE [dt EXCEPT !.year = dt.year + 1, !.month = 1, !.day = 1]

\* dt moved by delta minutes, |delta| less than a day
ShiftMinutes(dt, delta) ==
    LET m == dt.hour * 60 + dt.minute + delta
    IN  IF m < 0
        THEN [PrevDay(dt) EXCEPT !.hour = (m + 1440) \div 60, !.minute = (m + 1440) % 60]
        ELSE IF m >= 1440
        THEN [NextDay(dt) EXCEPT !.hour = (m - 1440) \div 60, !.minute = (m - 1440) % 60]
        ELSE [dt EXCEPT !.hour = m \div 60, !.minute = m % 60]

(***************************************************************************)
(* Parsing and formatting of timestamps.                                   *)
(***************************************************************************)
Failed == [ok |-> FALSE, dt |-> NoDateTime]

Parsed(dt) == [ok |-> TRUE, dt |-> dt]

ValidDate(y, mo, d) ==
    /\ y >= 1
    /\ mo \in 1..12
    /\ d >= 1
    /\ d <= DaysInMonth(y, mo)

DateOf(y, mo, d) ==
    IF ValidDate(y, mo, d) THEN Parsed(DateTime(y, mo, d, 0, 0, 0)) ELSE Failed

\* datetime.strptime(s, "%Y-%m-%d") on zero-padded input
strptime_date(s) ==
    IF /\ Len(s) = 10
       /\ s[5] = "-" /\ s[8] = "-"
       /\ AllDigits(s, 1, 4)
       /\ AllDigits(s, 6, 7)
       /\ AllDigits(s, 9, 10)
    THEN DateOf(Num(s, 1, 4), Num(s, 6, 7), Num(s, 9, 10))
    ELSE Failed

\* a parsed date with its time of day, when both are valid
WithTime(date, h, mi, sec) ==
    IF date.ok /\ h <= 23 /\ mi <= 59 /\ sec <= 59
    THEN Parsed([date.dt EXCEPT !.hour = h, !.minute = mi, !.second = sec])
    ELSE Failed

\* datetime.strptime(s, "%Y-%m-%dT%H:%M:%S") on zero-padded input
strptime_datetime(s) ==
    IF /\ Len(s) = 19
       /\ s[11] = "T" /\ s[14] = ":" /\ s[17] = ":"
       /\ AllDigits(s, 12, 13)
       /\ AllDigits(s, 15, 16)
       /\ AllDigits(s, 18, 19)
    THEN WithTime(strptime_date(SubSeq(s, 1, 10)),
                  Num(s, 12, 13), Num(s, 15, 16), Num(s, 18, 19))
    ELSE Failed

\* the naive part of datetime.isoformat(): YYYY-MM-DDTHH:MM:SS
naive_isoformat(dt) ==
    Pad4(dt.year) \o <<"-">> \o Pad2(dt.month) \o <<"-">> \o Pad2(dt.day)
        \o <<"T">> \o Pad2(dt.hour) \o <<":">> \o Pad2(dt.minute)
        \o <<":">> \o Pad2(dt.second)

\* "+HH:MM" or "-HH:MM" for an offset in minutes
offset_suffix(off) ==
    LET a == IF off < 0 THEN 0 - off ELSE off
    IN  <<IF off < 0 THEN "-" ELSE "+">> \o Pad2(a \div 60) \o <<":">> \o Pad2(a % 60)

\* isoformat() of a datetime whose tzinfo is LOCAL_TZ
isoformat(dt) == naive_isoformat(dt) \o offset_suffix(LocalUtcOffset)

\* the UTC offset, in minutes, that a "+HH:MM" / "-HH:MM" suffix states
ParseOffset(s) ==
    IF /\ Len(s) = 6
       /\ s[1] \in {"+", "-"}
       /\ s[4] = ":"
       /\ AllDigits(s, 2, 3)
       /\ AllDigits(s, 5, 6)
       /\ Num(s, 2, 3) <= 23
       /\ Num(s, 5, 6) <= 59
    THEN [ok |-> TRUE,
          off |-> (IF s[1] = "-" THEN 0 - 1 ELSE 1)
                    * (Num(s, 2, 3) * 60 + Num(s, 5, 6))]
    ELSE [ok |-> FALSE, off |-> 0]

RECURSIVE ReplaceZ(_)
\* str.replace("Z", "+00:00")
ReplaceZ(s) ==
    IF s = <<>> THEN <<>>
    ELSE (IF Head(s) = "Z" THEN offset_suffix(0) ELSE <<Head(s)>>) \o ReplaceZ(Tail(s))

\* astimezone(LOCAL_TZ) of wall-clock value w read at UTC offset o
ToLocal(w, o) ==
    IF w.ok /\ o.ok THEN Parsed(ShiftMinutes(w.dt, LocalUtcOffset - o.off)) ELSE Failed

\* datetime.fromisoformat(s) followed by the tzinfo normalisation to
\* LOCAL_TZ: a naive value is labelled local, a value with an offset is
\* converted
fromisoformat_local(s) ==
    IF Len(s) = 10 THEN strptime_date(s)
    ELSE IF Len(s) = 19 THEN strptime_datetime(s)
    ELSE IF Len(s) = 25
         THEN ToLocal(strptime_datetime(SubSeq(s, 1, 19)),
                      ParseOffset(SubSeq(s, 20, 25)))
         ELSE Failed

parse_as_local_keep_offset(dt_str) ==
    LET s1 == IF dt_str # <<>> /\ dt_str[Len(dt_str)] = "Z"
              THEN SubSeq(dt_str, 1, Len(dt_str) - 1) ELSE dt_str
    IN  strptime_datetime(s1)

\* main.parse_as_local
parse_as_local(dt_str) ==
    LET s1 == IF dt_str # <<>> /\ dt_str[Len(dt_str)] = "Z"
              THEN SubSeq(dt_str, 1, Len(dt_str) - 1) ELSE dt_str
        s2 == IF Len(s1) > WallClockLen THEN SubSeq(s1, 1, WallClockLen) ELSE s1
    IN  strptime_datetime(s2)

(***************************************************************************)
(* calendar_backend.find_free_slots: the computation after the events were *)
(* fetched.  Instants are minutes (MinuteOf).                              *)
(***************************************************************************)
Interval(a, b) == [start |-> a, end |-> b]

\* the condition of both while loops: slot_start + duration <= limit
SlotFitsStrict(slot_start, duration_minutes, limit) ==
    slot_start + duration_minutes < limit

SlotFits(slot_start, duration_minutes, limit) ==
    slot_start + duration_minutes <= limit

\* slot_end = slot_start + timedelta(minutes=duration_minutes), and the
\* {"start", "end"} entry appended to free_slots
SlotInHours(slot_start, duration_minutes) ==
    Interval(slot_start, slot_start + 60 * duration_minutes)

Slot(slot_start, duration_minutes) ==
    Interval(slot_start, slot_start + duration_minutes)

\* cursor = max(cursor, b_end)
AdvanceCursorToEnd(cursor, b_end) == b_end

AdvanceCursor(cursor, b_end) == Max(cursor, b_end)

RECURSIVE InsertByStart(_, _)
InsertByStart(sorted, b) ==
    IF sorted = <<>> THEN <<b>>
    ELSE IF sorted[Len(sorted)].start <= b.start THEN Append(sorted, b)
    ELSE Append(InsertByStart(SubSeq(sorted, 1, Len(sorted) - 1), b),
                sorted[Len(sorted)])

\* the events taken in the order the provider returned them
KeepOrder(s) == s

RECURSIVE SortByStart(_)
\* busy.sort(key=lambda x: x[0]): stable, ascending by start
SortByStart(s) ==
    IF s = <<>> THEN <<>>
    ELSE InsertByStart(SortByStart(SubSeq(s, 1, Len(s) - 1)), s[Len(s)])

Returned(acc) == [slots |-> acc, hung |-> FALSE]

\* the loop was still appending after MaxSlots slots
Hung(acc) == [slots |-> acc, hung |-> TRUE]

RECURSIVE TailLoop(_, _, _, _)
\* while cursor + duration <= day_end: append a slot, cursor = slot_end;
\* then return free_slots
TailLoop(cursor, day_end, duration_minutes, acc) ==
    IF SlotFits(cursor, duration_minutes, day_end)
    THEN IF Len(acc) >= MaxSlots THEN Hung(acc)
         ELSE TailLoop(cursor + duration_minutes, day_end, duration_minutes,
                       Append(acc, Slot(cursor, duration_minutes)))
    ELSE Returned(acc)

RECURSIVE BusyLoop(_, _, _, _, _, _)
RECURSIVE GapLoop(_, _, _, _, _, _, _)
\* for b_start, b_end in busy: if b_start > cursor, the slots before
\* b_start; cursor = max(cursor, b_end)
BusyLoop(busy_list, i, cursor, day_end, duration_minutes, acc) ==
    IF i > Len(busy_list) THEN TailLoop(cursor, day_end, duration_minutes, acc)
    ELSE IF busy_list[i].start > cursor
         THEN GapLoop(busy_list, i, cursor, cursor, day_end, duration_minutes, acc)
         ELSE BusyLoop(busy_list, i + 1, AdvanceCursor(cursor, busy_list[i].end),
                       day_end, duration_minutes, acc)

\* while slot_start + duration <= b_start: append a slot, slot_start = slot_end
GapLoop(busy_list, i, cursor, slot_start, day_end, duration_minutes, acc) ==
    IF SlotFits(slot_start, duration_minutes, busy_list[i].start)
    THEN IF Len(acc) >= MaxSlots THEN Hung(acc)
         ELSE GapLoop(busy_list, i, cursor, slot_start + duration_minutes, day_end,
                      duration_minutes, Append(acc, Slot(slot_start, duration_minutes)))
    ELSE BusyLoop(busy_list, i + 1, AdvanceCursor(cursor, busy_list[i].end),
                  day_end, duration_minutes, acc)

\* the part of find_free_slots after busy.sort: cursor = day_start, the
\* loop over busy, the loop up to day_end
FindFreeSlots(day_start, day_end, busy_list, duration_minutes) ==
    BusyLoop(busy_list, 1, day_start, day_end, duration_minutes, <<>>)

\* the (start_dt, end_dt) pair find_free_slots makes of one fetched event
BusyPair(start_dt, end_dt) ==
    [ok |-> start_dt.ok /\ end_dt.ok,
     busy |-> Interval(MinuteOf(start_dt.dt), MinuteOf(end_dt.dt))]

ParseEvent(e) == BusyPair(fromisoformat_local(e.start), fromisoformat_local(e.end))

BusyOf(e) == ParseEvent(e).busy

RECURSIVE BusyList(_, _, _)
BusyListNext(events, i, acc, pair) ==
    IF pair.ok THEN BusyList(events, i + 1, Append(acc, pair.busy))
    ELSE [ok |-> FALSE, busy |-> <<>>]

SortedBusy(list) == [ok |-> list.ok, busy |-> SortByStart(list.busy)]


\* for e in events: ... busy.append((start_dt, end_dt)); with ok false when
\* fromisoformat raises
BusyList(events, i, acc) ==
    IF i > Len(events) THEN [ok |-> TRUE, busy |-> acc]
    ELSE BusyListNext(events, i, acc, ParseEvent(events[i]))

\* the events of the calendar as the sorted busy list of find_free_slots
FetchedBusy(events) == SortedBusy(BusyList(events, 1, <<>>))

\* "T" in raw
HasT(raw) == \E i \in 1..Len(raw) : raw[i] = "T"

\* check_availability: the date of the request as a LOCAL_TZ datetime
ParseCheckDate(raw) ==
    IF HasT(raw) THEN fromisoformat_local(ReplaceZ(raw)) ELSE strptime_date(raw)

\* date_local.replace(hour=h, minute=0, second=0, microsecond=0)
AtHour(dt, h) == [dt EXCEPT !.hour = h, !.minute = 0, !.second = 0]

(***************************************************************************)
(* Inputs.                                                                 *)
(***************************************************************************)
Hm(h, m) == h * 60 + m

\* the datetime of RefDate's day at minute t
DateTimeAt(t) == ShiftMinutes(RefDate, t)

EventAt(a, b) == [start |-> isoformat(DateTimeAt(a)), end |-> isoformat(DateTimeAt(b))]

\* an all-day event carries "date" values
AllDayEvent ==
    [start |-> SubSeq(naive_isoformat(RefDate), 1, 10),
     end |-> SubSeq(naive_isoformat(NextDay(RefDate)), 1, 10)]

BusyTimes == {Hm(9, 0), Hm(9, 30), Hm(10, 0), Hm(11, 0)}

SampleEvents ==
    {EventAt(x[1], x[2]) : x \in {y \in BusyTimes \X BusyTimes : y[1] <= y[2]}}
        \cup {AllDayEvent}

\* the calendars a check may find: up to MaxBusy events, in any order
SampleCalendars == UNION {[1..n -> SampleEvents] : n \in 0..MaxBusy}

SampleHours == {DefaultWorkStartHour, 10, DefaultWorkEndHour}

SampleStartHours == {DefaultWorkStartHour, 10}

SampleDurations == {0 - 30, 0, DefaultDurationMinutes, 45}

\* "2025-11-15", "2025-11-15T20:00:00Z" (noon of that day in LOCAL_TZ) and
\* a string that is no date
SampleDates ==
    {SubSeq(naive_isoformat(RefDate), 1, 10),
     naive_isoformat(DateTimeAt(Hm(20, 0))) \o <<"Z">>,
     <<"t", "o", "m", "o", "r", "r", "o", "w">>}

\* wall-clock values of book requests
SampleWallClocks ==
    {DateTime(2025, 11, 14, 16, 30, 0),
     DateTime(2025, 11, 15, 10, 0, 0),
     DateTime(2025, 11, 15, 10, 30, 0),
     DateTime(2024, 2, 29, 23, 59, 58)}

\* what may follow the wall-clock value in a timestamp
SampleSuffixes ==
    {<<>>,
     <<"Z">>,
     offset_suffix(0),
     offset_suffix(LocalUtcOffset),
     offset_suffix(5 * 60 + 30),
     <<".", "1", "2", "3", "Z">>}

\* strings that hold no wall-clock value: a bare date, a space for the "T",
\* no seconds, the empty string
SampleMalformed ==
    {SubSeq(naive_isoformat(RefDate), 1, 10),
     [naive_isoformat(RefDate) EXCEPT ![11] = " "],
     SubSeq(naive_isoformat(RefDate), 1, 16),
     <<>>}

SampleTimestamps ==
    {naive_isoformat(w) \o x : w \in SampleWallClocks, x \in SampleSuffixes}
        \cup SampleMalformed

\* the timestamps of the requests that run concurrently
ConcurrentTimestamps ==
    {naive_isoformat(DateTimeAt(Hm(9, 0))),
     naive_isoformat(DateTimeAt(Hm(9, 30))) \o <<"Z">>,
     naive_isoformat(DateTimeAt(Hm(10, 0))) \o offset_suffix(0),
     SubSeq(naive_isoformat(RefDate), 1, 10)}

(***************************************************************************)
(* State.                                                                  *)
(***************************************************************************)
VARIABLES
    calendar,     \* the provider's events, each [start, end] of strings
    pc,           \* per request: idle, list, insert, returned, raised, hung
    kind,         \* per request: none, check, book
    checkReq,     \* per request: the CheckAvailabilityRequest
    bookReq,      \* per request: the BookEventRequest (start, end)
    window,       \* per request: day_start, day_end of find_free_slots
    busy,         \* per request: the sorted busy list of find_free_slots
    free_slots,   \* per request: the slots of the response
    parsed,       \* per request: start_local, end_local of book
    sent,         \* per request: start_iso, end_iso of book
    listCalls,    \* per request: events().list(...).execute() calls made
    insertCalls,  \* per request: events().insert(...).execute() calls made
    error         \* per request: none, ParseError, GatewayError

vars == <<calendar, pc, kind, checkReq, bookReq, window, busy, free_slots,
          parsed, sent, listCalls, insertCalls, error>>

NoCheckReq ==
    [date |-> <<>>, durationMinutes |-> 0, workStartHour |-> 0, workEndHour |-> 0]

NoBookReq == [start |-> <<>>, end |-> <<>>]

NoWindow == [day_start |-> 0, day_end |-> 0]

NoParsed == [start_local |-> NoDateTime, end_local |-> NoDateTime]

NoSent == [start_iso |-> <<>>, end_iso |-> <<>>]

InitRequests ==
    /\ pc = [r \in Reqs |-> "idle"]
    /\ kind = [r \in Reqs |-> "none"]
    /\ checkReq = [r \in Reqs |-> NoCheckReq]
    /\ bookReq = [r \in Reqs |-> NoBookReq]
    /\ window = [r \in Reqs |-> NoWindow]
    /\ busy = [r \in Reqs |-> <<>>]
    /\ free_slots = [r \in Reqs |-> <<>>]
    /\ parsed = [r \in Reqs |-> NoParsed]
    /\ sent = [r \in Reqs |-> NoSent]
    /\ listCalls = [r \in Reqs |-> 0]
    /\ insertCalls = [r \in Reqs |-> 0]
    /\ error = [r \in Reqs |-> "none"]

\* the service starts against an empty calendar
Init == calendar = <<>> /\ InitRequests

\* the service starts against a calendar that already holds events
InitSlots == calendar \in SampleCalendars /\ InitRequests

(***************************************************************************)
(* check_availability.                                                     *)
(***************************************************************************)
\* check_availability up to the events().list call of get_events_for_range:
\* the date is parsed, day_start and day_end are set
CheckBegin(r, dates, startHours, endHours, durations) ==
    /\ pc[r] = "idle"
    /\ \E date \in dates, ws \in startHours, we \in endHours, d \in durations :
         LET dt == ParseCheckDate(date)
         IN  /\ kind' = [kind EXCEPT ![r] = "check"]
             /\ checkReq' = [checkReq EXCEPT ![r] =
                    [date |-> date, durationMinutes |-> d,
                     workStartHour |-> ws, workEndHour |-> we]]
             /\ IF dt.ok
                THEN /\ window' = [window EXCEPT ![r] =
                            [day_start |-> MinuteOf(AtHour(dt.dt, ws)),
                             day_end |-> MinuteOf(AtHour(dt.dt, we))]]
                     /\ pc' = [pc EXCEPT ![r] = "list"]
                     /\ error' = error
                ELSE /\ window' = window
                     /\ pc' = [pc EXCEPT ![r] = "raised"]
                     /\ error' = [error EXCEPT ![r] = "ParseError"]
    /\ UNCHANGED <<calendar, bookReq, busy, free_slots, parsed, sent,
                   listCalls, insertCalls>>

\* the list call fails: the exception leaves the handler
ListFails(r) ==
    /\ pc[r] = "list"
    /\ listCalls' = [listCalls EXCEPT ![r] = @ + 1]
    /\ pc' = [pc EXCEPT ![r] = "raised"]
    /\ error' = [error EXCEPT ![r] = "GatewayError"]
    /\ UNCHANGED <<calendar, kind, checkReq, bookReq, window, busy,
                   free_slots, parsed, sent, insertCalls>>

\* the list call returns the calendar's events; find_free_slots turns them
\* into the busy list, sorts it and computes the slots, and the handler
\* returns {"slots": slots}
ListReturns(r) ==
    /\ pc[r] = "list"
    /\ listCalls' = [listCalls EXCEPT ![r] = @ + 1]
    /\ \E events \in {FetchedBusy(calendar)} :
         IF events.ok
         THEN \E res \in {FindFreeSlots(window[r].day_start, window[r].day_end,
                                        events.busy, checkReq[r].durationMinutes)} :
                /\ busy' = [busy EXCEPT ![r] = events.busy]
                /\ free_slots' = [free_slots EXCEPT ![r] = res.slots]
                /\ pc' = [pc EXCEPT ![r] = IF res.hung THEN "hung" ELSE "returned"]
                /\ error' = error
         ELSE /\ pc' = [pc EXCEPT ![r] = "raised"]
              /\ error' = [error EXCEPT ![r] = "ParseError"]
              /\ UNCHANGED <<busy, free_slots>>
    /\ UNCHANGED <<calendar, kind, checkReq, bookReq, window, parsed, sent,
                   insertCalls>>

(***************************************************************************)
(* book.                                                                   *)
(***************************************************************************)
\* book up to the events().insert call of book_event: start and end are
\* parsed with parse_as_local and formatted with isoformat
BookBegin(r, timestamps) ==
    /\ pc[r] = "idle"
    /\ \E start \in timestamps, end \in timestamps :
         LET start_local == parse_as_local(start)
             end_local == parse_as_local(end)
         IN  /\ kind' = [kind EXCEPT ![r] = "book"]
             /\ bookReq' = [bookReq EXCEPT ![r] = [start |-> start, end |-> end]]
             /\ IF start_local.ok /\ end_local.ok
                THEN /\ parsed' = [parsed EXCEPT ![r] =
                            [start_local |-> start_local.dt,
                             end_local |-> end_local.dt]]
                     /\ sent' = [sent EXCEPT ![r] =
                            [start_iso |-> isoformat(start_local.dt),
                             end_iso |-> isoformat(end_local.dt)]]
                     /\ pc' = [pc EXCEPT ![r] = "insert"]
                     /\ error' = error
                ELSE /\ pc' = [pc EXCEPT ![r] = "raised"]
                     /\ error' = [error EXCEPT ![r] = "ParseError"]
                     /\ UNCHANGED <<parsed, sent>>
    /\ UNCHANGED <<calendar, checkReq, window, busy, free_slots, listCalls,
                   insertCalls>>

\* a handler that calls insert again after a failure
InsertFailsRetry(r) ==
    /\ pc[r] = "insert"
    /\ insertCalls[r] < 3
    /\ insertCalls' = [insertCalls EXCEPT ![r] = @ + 1]
    /\ UNCHANGED <<calendar, pc, kind, checkReq, bookReq, window, busy,
                   free_slots, parsed, sent, listCalls, error>>

\* the insert call fails: the exception leaves the handler
InsertFails(r) ==
    /\ pc[r] = "insert"
    /\ insertCalls' = [insertCalls EXCEPT ![r] = @ + 1]
    /\ pc' = [pc EXCEPT ![r] = "raised"]
    /\ error' = [error EXCEPT ![r] = "GatewayError"]
    /\ UNCHANGED <<calendar, kind, checkReq, bookReq, window, busy,
                   free_slots, parsed, sent, listCalls>>

\* the event book_event sends: start and end are start_iso and end_iso
EventBody(r) == [start |-> sent[r].start_iso, end |-> sent[r].end_iso]

Overlaps(a, b) == a.start < b.end /\ b.start < a.end

\* a book_event that fetches the calendar and refuses an overlapping event
InsertReturnsIfFree(r) ==
    /\ pc[r] = "insert"
    /\ listCalls' = [listCalls EXCEPT ![r] = @ + 1]
    /\ IF \E i \in 1..Len(calendar) : Overlaps(BusyOf(calendar[i]), BusyOf(EventBody(r)))
       THEN /\ pc' = [pc EXCEPT ![r] = "raised"]
            /\ error' = [error EXCEPT ![r] = "Conflict"]
            /\ UNCHANGED <<calendar, insertCalls>>
       ELSE /\ insertCalls' = [insertCalls EXCEPT ![r] = @ + 1]
            /\ calendar' = Append(calendar, EventBody(r))
            /\ pc' = [pc EXCEPT ![r] = "returned"]
            /\ error' = error
    /\ UNCHANGED <<kind, checkReq, bookReq, window, busy, free_slots, parsed, sent>>

\* the insert call stores the event; the handler returns
\* {"status": "confirmed", "event": ...}
InsertReturns(r) ==
    /\ pc[r] = "insert"
    /\ insertCalls' = [insertCalls EXCEPT ![r] = @ + 1]
    /\ calendar' = Append(calendar, EventBody(r))
    /\ pc' = [pc EXCEPT ![r] = "returned"]
    /\ UNCHANGED <<kind, checkReq, bookReq, window, busy, free_slots, parsed,
                   sent, listCalls, error>>

(***************************************************************************)
(* Specifications.                                                         *)
(***************************************************************************)
\* requests of both kinds, in flight together, against one calendar
Next ==
    \E r \in Reqs :
        \/ CheckBegin(r, {SubSeq(naive_isoformat(RefDate), 1, 10)},
                      {DefaultWorkStartHour}, {10}, {DefaultDurationMinutes})
        \/ ListFails(r)
        \/ ListReturns(r)
        \/ BookBegin(r, ConcurrentTimestamps)
        \/ InsertFails(r)
        \/ InsertReturns(r)

Spec == Init /\ [][Next]_vars

\* one check-availability request against any calendar
NextSlots ==
    \E r \in {1} :
        \/ CheckBegin(r, SampleDates, SampleStartHours, SampleHours, SampleDurations)
        \/ ListFails(r)
        \/ ListReturns(r)

SpecSlots == InitSlots /\ [][NextSlots]_vars

\* one book request with any timestamps
NextBook ==
    \E r \in {1} :
        \/ BookBegin(r, SampleTimestamps)
        \/ InsertFails(r)
        \/ InsertReturns(r)

SpecBook == Init /\ [][NextBook]_vars

(***************************************************************************)
(* Properties of find_free_slots (SpecSlots).                              *)
(***************************************************************************)
\* a check-availability request whose handler returned {"slots": ...} for
\* a positive durationMinutes
SlotsReturned(r) ==
    /\ kind[r] = "check"
    /\ pc[r] = "returned"
    /\ checkReq[r].durationMinutes > 0

SlotIndex(r) == 1..Len(free_slots[r])

BusyIndex(r) == 1..Len(busy[r])

\* s starts inside b
StartsInside(s, b) == b.start <= s.start /\ s.start < b.end

\* the busy list of the example: 9:00-10:00 and 9:30-11:00
ExampleBusy == <<Interval(Hm(9, 0), Hm(10, 0)), Interval(Hm(9, 30), Hm(11, 0))>>

ExampleRequest(r) ==
    /\ window[r] = [day_start |-> Hm(9, 0), day_end |-> Hm(17, 0)]
    /\ checkReq[r].durationMinutes = 30
    /\ busy[r] = ExampleBusy

\* with a positive duration both loops end within MaxSlots slots
LoopsEndForPositiveDuration ==
    \A r \in Reqs :
        kind[r] = "check" /\ checkReq[r].durationMinutes > 0 => pc[r] # "hung"

\* C1: no returned free slot overlaps a busy interval and none starts inside
\* one, whatever the window and however the busy intervals overlap or nest;
\* with busy 9:00-10:00 and 9:30-11:00 in a 9:00-17:00 window and duration
\* 30 no slot starts before 11:00.
C1_NoSlotOverlapsBusy ==
    \A r \in Reqs :
        SlotsReturned(r) =>
            /\ \A i \in SlotIndex(r), j \in BusyIndex(r) :
                    /\ ~Overlaps(free_slots[r][i], busy[r][j])
                    /\ ~StartsInside(free_slots[r][i], busy[r][j])
            /\ ExampleRequest(r) =>
                    \A i \in SlotIndex(r) : free_slots[r][i].start >= Hm(11, 0)

\* the example of C1 was computed and slots were returned
C1_Witness ==
    \E r \in Reqs :
        /\ SlotsReturned(r)
        /\ ExampleRequest(r)
        /\ Len(free_slots[r]) = 12
        /\ free_slots[r][1].start = Hm(11, 0)

\* C2: every returned free slot is exactly durationMinutes long.
C2_SlotsHaveDuration ==
    \A r \in Reqs :
        SlotsReturned(r) =>
            \A i \in SlotIndex(r) :
                free_slots[r][i].end - free_slots[r][i].start
                    = checkReq[r].durationMinutes

\* a remainder shorter than the duration was dropped before a busy interval
\* and another before day_end
C2_Witness ==
    \E r \in Reqs :
        /\ SlotsReturned(r)
        /\ \E i \in SlotIndex(r), j \in BusyIndex(r) :
                /\ free_slots[r][i].end < busy[r][j].start
                /\ busy[r][j].start - free_slots[r][i].end < checkReq[r].durationMinutes
        /\ \E i \in SlotIndex(r) :
                /\ free_slots[r][i].end < window[r].day_end
                /\ \A k \in SlotIndex(r) : free_slots[r][k].end <= free_slots[r][i].end
                /\ \A j \in BusyIndex(r) : busy[r][j].end <= free_slots[r][i].start

\* the busy intervals are pairwise non-overlapping and lie inside the window
DisjointBusyInWindow(r) ==
    /\ \A j \in BusyIndex(r) :
            /\ window[r].day_start <= busy[r][j].start
            /\ busy[r][j].end <= window[r].day_end
    /\ \A j, k \in BusyIndex(r) : j # k => ~Overlaps(busy[r][j], busy[r][k])

\* the instants at which an uncovered stretch of the window can begin:
\* day_start, the end of a busy interval, the end of a slot
StretchStarts(r) ==
    {window[r].day_start}
        \cup {busy[r][j].end : j \in BusyIndex(r)}
        \cup {free_slots[r][i].end : i \in SlotIndex(r)}

\* a slot or a busy interval overlaps x
Covered(r, x) ==
    \/ \E i \in SlotIndex(r) : Overlaps(free_slots[r][i], x)
    \/ \E j \in BusyIndex(r) : Overlaps(busy[r][j], x)

\* C3: for pairwise non-overlapping busy intervals inside the window the
\* slots are pairwise disjoint, disjoint from the busy intervals, and no
\* stretch of the window of length durationMinutes is left without a slot
\* or a busy interval in it.  (A longest uncovered stretch begins at
\* day_start or where a slot or busy interval ends, so it is enough to look
\* at the stretches beginning there.)
C3_SlotsAndBusyTileWindow ==
    \A r \in Reqs :
        SlotsReturned(r) /\ DisjointBusyInWindow(r) =>
            /\ \A i, k \in SlotIndex(r) :
                    i # k => ~Overlaps(free_slots[r][i], free_slots[r][k])
            /\ \A i \in SlotIndex(r), j \in BusyIndex(r) :
                    ~Overlaps(free_slots[r][i], busy[r][j])
            /\ \A p \in StretchStarts(r) :
                    /\ p >= window[r].day_start
                    /\ p + checkReq[r].durationMinutes <= window[r].day_end
                    => Covered(r, Interval(p, p + checkReq[r].durationMinutes))

\* two separate busy intervals inside the window, fetched out of order,
\* with slots before, between and after them
C3_Witness ==
    \E r \in Reqs :
        /\ SlotsReturned(r)
        /\ DisjointBusyInWindow(r)
        /\ Len(busy[r]) = 2
        /\ calendar[1] # calendar[2]
        /\ BusyOf(calendar[1]) = busy[r][2]
        /\ busy[r][1].start < busy[r][1].end
        /\ busy[r][1].end < busy[r][2].start
        /\ \E i \in SlotIndex(r) : free_slots[r][i].end <= busy[r][1].start
        /\ \E i \in SlotIndex(r) :
                /\ busy[r][1].end <= free_slots[r][i].start
                /\ free_slots[r][i].end <= busy[r][2].start
        /\ \E i \in SlotIndex(r) : busy[r][2].end <= free_slots[r][i].start

\* workEndHour - workStartHour, in minutes
WindowMinutes(r) == (checkReq[r].workEndHour - checkReq[r].workStartHour) * 60

\* C4: with no busy interval and a window (of length >= 0) that is an exact
\* multiple of the duration, exactly WindowMinutes / durationMinutes slots
\* are returned, the first at day_start, each next one where the previous
\* ends, the last ending at day_end; the defaults 9, 17, 30 give 16 slots
\* from 09:00 to 17:00.
C4_EmptyCalendarSlotCount ==
    \A r \in Reqs :
        /\ SlotsReturned(r)
        /\ busy[r] = <<>>
        /\ WindowMinutes(r) >= 0
        /\ WindowMinutes(r) % checkReq[r].durationMinutes = 0
        => /\ Len(free_slots[r]) = WindowMinutes(r) \div checkReq[r].durationMinutes
           /\ free_slots[r] # <<>> =>
                /\ free_slots[r][1].start = checkReq[r].workStartHour * 60
                /\ free_slots[r][Len(free_slots[r])].end = checkReq[r].workEndHour * 60
           /\ \A i \in SlotIndex(r) :
                i > 1 => free_slots[r][i].start = free_slots[r][i - 1].end
           /\ ( /\ checkReq[r].workStartHour = DefaultWorkStartHour
                /\ checkReq[r].workEndHour = DefaultWorkEndHour
                /\ checkReq[r].durationMinutes = DefaultDurationMinutes )
              => /\ Len(free_slots[r]) = 16
                 /\ free_slots[r][1].start = Hm(9, 0)
                 /\ free_slots[r][16].end = Hm(17, 0)

\* the default request against an empty calendar returned its slots
C4_Witness ==
    \E r \in Reqs :
        /\ SlotsReturned(r)
        /\ busy[r] = <<>>
        /\ calendar = <<>>
        /\ checkReq[r].workStartHour = DefaultWorkStartHour
        /\ checkReq[r].workEndHour = DefaultWorkEndHour
        /\ checkReq[r].durationMinutes = DefaultDurationMinutes
        /\ Len(free_slots[r]) = 16

\* C5: a check-availability request with a zero or negative durationMinutes
\* fails with a ValidationError: it neither returns a slot list nor stays
\* in the slot-emitting loops.
C5_NonPositiveDurationRejected ==
    \A r \in Reqs :
        kind[r] = "check" /\ checkReq[r].durationMinutes <= 0 =>
            pc[r] \notin {"returned", "hung"}

\* C6: when day_start >= day_end the returned slot list is empty, for every
\* busy list and positive duration.
C6_EmptyWindowNoSlots ==
    \A r \in Reqs :
        SlotsReturned(r) /\ window[r].day_start >= window[r].day_end =>
            free_slots[r] = <<>>

\* C9: every returned slot lies within the work window.
C9_SlotsWithinWindow ==
    \A r \in Reqs :
        SlotsReturned(r) =>
            \A i \in SlotIndex(r) :
                /\ free_slots[r][i].start >= window[r].day_start
                /\ free_slots[r][i].end <= window[r].day_end

(***************************************************************************)
(* Properties of parse_as_local and book (SpecBook).                       *)
(***************************************************************************)
Range(f) == {f[i] : i \in DOMAIN f}

\* "2025-11-14T16:30:00Z" and "2025-11-14T16:30:00-08:00"
ExampleZ ==
    <<"2", "0", "2", "5", "-", "1", "1", "-", "1", "4", "T",
      "1", "6", ":", "3", "0", ":", "0", "0", "Z">>

ExampleOffset ==
    <<"2", "0", "2", "5", "-", "1", "1", "-", "1", "4", "T",
      "1", "6", ":", "3", "0", ":", "0", "0", "-", "0", "8", ":", "0", "0">>

\* C7: parse_as_local discards whatever follows the wall-clock value: a
\* book request whose start and end are wall-clock values w1, w2 followed by
\* nothing, "Z", an offset or a fraction always parses, start_local and
\* end_local are w1 and w2 themselves, the strings sent to the provider are
\* w1 and w2 with the local offset, and the stored event carries them;
\* "2025-11-14T16:30:00Z" and "2025-11-14T16:30:00-08:00" both give
\* 2025-11-14 16:30:00 local.
C7_OffsetDiscarded ==
    \A r \in Reqs :
        kind[r] = "book" =>
            /\ \A w1, w2 \in SampleWallClocks, x1, x2 \in SampleSuffixes :
                    /\ bookReq[r].start = naive_isoformat(w1) \o x1
                    /\ bookReq[r].end = naive_isoformat(w2) \o x2
                    => /\ error[r] # "ParseError"
                       /\ parsed[r] = [start_local |-> w1, end_local |-> w2]
                       /\ SubSeq(sent[r].start_iso, 1, WallClockLen) = naive_isoformat(w1)
                       /\ SubSeq(sent[r].end_iso, 1, WallClockLen) = naive_isoformat(w2)
                       /\ sent[r].start_iso = naive_isoformat(w1) \o offset_suffix(LocalUtcOffset)
                       /\ sent[r].end_iso = naive_isoformat(w2) \o offset_suffix(LocalUtcOffset)
                       /\ pc[r] = "returned" =>
                            [start |-> naive_isoformat(w1) \o offset_suffix(LocalUtcOffset),
                             end |-> naive_isoformat(w2) \o offset_suffix(LocalUtcOffset)]
                                \in Range(calendar)
            /\ bookReq[r].start = ExampleZ /\ bookReq[r].end = ExampleOffset =>
                    /\ error[r] # "ParseError"
                    /\ parsed[r].start_local = DateTime(2025, 11, 14, 16, 30, 0)
                    /\ parsed[r].end_local = parsed[r].start_local

\* the two timestamps of the example were booked as one wall-clock value
C7_Witness ==
    \E r \in Reqs :
        /\ kind[r] = "book"
        /\ pc[r] = "returned"
        /\ bookReq[r].start = ExampleZ
        /\ bookReq[r].end = ExampleOffset
        /\ calendar = <<[start |-> ExampleOffset, end |-> ExampleOffset]>>

(***************************************************************************)
(* Properties of the handlers running together (Spec).                     *)
(***************************************************************************)
\* start or end of the book request holds no wall-clock value
BadTimestamp(r) ==
    \/ bookReq[r].start \in SampleMalformed
    \/ bookReq[r].end \in SampleMalformed

\* C8: a request makes at most one provider call, a list call for
\* check-availability and an insert call for book, and none after a failed
\* one: a request that ended with a GatewayError made exactly one call, a
\* book request returns "confirmed" only after its one insert call stored
\* the event, and a book request whose start or end does not parse ends
\* with a ParseError without an insert call.
C8_OneCallNoRetry ==
    \A r \in Reqs :
        /\ listCalls[r] + insertCalls[r] <= 1
        /\ kind[r] = "check" => insertCalls[r] = 0
        /\ kind[r] = "book" => listCalls[r] = 0
        /\ listCalls[r] + insertCalls[r] = 1 => pc[r] \notin {"idle", "list", "insert"}
        /\ error[r] = "GatewayError" =>
                /\ pc[r] = "raised"
                /\ listCalls[r] + insertCalls[r] = 1
        /\ kind[r] = "book" /\ pc[r] = "returned" =>
                /\ insertCalls[r] = 1
                /\ error[r] = "none"
                /\ EventBody(r) \in Range(calendar)
        /\ kind[r] = "book" /\ error[r] = "ParseError" =>
                /\ pc[r] = "raised"
                /\ insertCalls[r] = 0
        /\ kind[r] = "book" /\ BadTimestamp(r) =>
                /\ error[r] = "ParseError"
                /\ sent[r] = NoSent

\* one book request ended with a GatewayError after its one insert call and
\* left nothing in the calendar; another ended with a ParseError without a
\* call
C8_Witness ==
    \E r1, r2 \in Reqs :
        /\ kind[r1] = "book" /\ error[r1] = "GatewayError" /\ insertCalls[r1] = 1
        /\ kind[r2] = "book" /\ error[r2] = "ParseError" /\ insertCalls[r2] = 0
        /\ BadTimestamp(r2)
        /\ calendar = <<>>

\* the book requests whose handler returned "confirmed"
Confirmed == {r \in Reqs : kind[r] = "book" /\ pc[r] = "returned"}

\* C10: book never reads the calendar and is never refused for a conflict:
\* a book request makes no list call, ends only confirmed, with a
\* ParseError or with a GatewayError, and every confirmed request's event
\* is held by the calendar next to the others, so two requests for
\* overlapping intervals can both be confirmed (C10_Witness).
C10_BookDoesNotCheckConflicts ==
    /\ \A r \in Reqs :
            kind[r] = "book" =>
                /\ listCalls[r] = 0
                /\ error[r] \in {"none", "ParseError", "GatewayError"}
                /\ pc[r] = "returned" => EventBody(r) \in Range(calendar)
    /\ Len(calendar) = Cardinality(Confirmed)

\* two book requests for overlapping intervals are both confirmed and the
\* calendar holds both events
C10_Witness ==
    \E r1, r2 \in Confirmed :
        /\ r1 # r2
        /\ BusyOf(EventBody(r1)).start < BusyOf(EventBody(r1)).end
        /\ BusyOf(EventBody(r2)).start < BusyOf(EventBody(r2)).end
        /\ Overlaps(BusyOf(EventBody(r1)), BusyOf(EventBody(r2)))
        /\ calendar = <<EventBody(r1), EventBody(r2)>>

=============================================================================
